---- MODULE Spec2Model ----
(***************************************************************************)
(* Model of pharmadiff/datasets/geom_dataset.py: the GEOM-Drugs corpus     *)
(* build (GeomDrugsDataset.process), the processed-artifact naming, the    *)
(* atom vocabularies and the one-hot helpers of GeomInfos.                 *)
(*                                                                         *)
(* Python values: None is the record None below; the local smiles_no_h is  *)
(* <<>> while unbound and <<s>> once bound to the string s.  Python lists  *)
(* are sequences; list index k (0-based) is sequence index k+1.            *)
(***************************************************************************)
EXTENDS Integers, Sequences, FiniteSets, TLC

VARIABLES
    \* the GeomDrugsDataset object
    split, remove_h, pre_filter, pre_transform, atom_encoder,
    \* locals of GeomDrugsDataset.process; pc is its position ("loop", "done",
    \* or "aborted" once an exception has left it), data_rec the raw record of
    \* the last iteration, tried the conformers handed to SanitizeMol so far
    pc, i, data_rec, all_smiles, data_list, mols_list, all_smiles_noh,
    smiles_no_h, tried,
    \* the loaded corpus (self.full_data_dict) and the processed directory:
    \* file name -> content
    full_data_dict, disk,
    \* the GeomInfos object and the last call of one of its helpers
    infos, call

vars == <<split, remove_h, pre_filter, pre_transform, atom_encoder,
          pc, i, data_rec, all_smiles, data_list, mols_list, all_smiles_noh,
          smiles_no_h, tried, full_data_dict, disk, infos, call>>

dsVars == <<split, remove_h, pre_filter, pre_transform, atom_encoder,
           full_data_dict>>
procVars == <<pc, i, data_rec, all_smiles, data_list, mols_list,
              all_smiles_noh, smiles_no_h, tried>>
infoVars == <<infos, call>>

None == [py |-> "None"]
Unbound == <<>>

(***************************************************************************)
(* Bounds of the model.                                                    *)
(***************************************************************************)
MaxRecords == 2      \* raw records read by one corpus build
MaxConformers == 2   \* conformers held by one raw record
MaxFeatures == 1     \* pharmacophore feature matches of one conformer
MaxNodes == 2        \* atoms of a molecule handed to the one-hot helpers

Range(s) == {s[k] : k \in DOMAIN s}

RECURSIVE SelectCodes(_, _)
\* the subsequence of s whose elements satisfy keep, order preserved
SelectCodes(s, keep) ==
    IF s = <<>> THEN <<>>
    ELSE (IF Head(s) \in keep THEN <<Head(s)>> ELSE <<>>)
         \o SelectCodes(Tail(s), keep)

(***************************************************************************)
(* The atom vocabulary (module level) and its hydrogen-free variant.       *)
(***************************************************************************)
full_atom_encoder ==
    [H |-> 0, B |-> 1, C |-> 2, N |-> 3, O |-> 4, F |-> 5, Al |-> 6,
     Si |-> 7, P |-> 8, S |-> 9, Cl |-> 10, As |-> 11, Br |-> 12, I |-> 13,
     Hg |-> 14, Bi |-> 15]

\* {k: v - 1 for k, v in self.atom_encoder.items() if k != 'H'}
GeomDrugsDataset_atom_encoder(rh) ==
    IF rh THEN [k \in DOMAIN full_atom_encoder \ {"H"} |-> full_atom_encoder[k] - 1]
    ELSE full_atom_encoder

\* variant: the comprehension without its "if k != 'H'" filter
GeomInfos_atom_encoder_keepH(rh) ==
    IF rh THEN [k \in DOMAIN full_atom_encoder |->
                    IF k = "H" THEN 0 ELSE full_atom_encoder[k] - 1]
    ELSE full_atom_encoder

\* the same comprehension, in GeomInfos.__init__
GeomInfos_atom_encoder(rh) ==
    IF rh THEN [k \in DOMAIN full_atom_encoder \ {"H"} |-> full_atom_encoder[k] - 1]
    ELSE full_atom_encoder

(***************************************************************************)
(* Raw input.  A raw record is (smiles, all_conformers).  A conformer is   *)
(* described by what the collaborators answer for it:                      *)
(*   sanitize  Chem.SanitizeMol and Chem.Kekulize both succeed             *)
(*   features  number of pharmacophore feature matches                     *)
(*   passes    value of pre_filter(data) for its graph                     *)
(*   removeHs  Chem.RemoveHs answers a molecule ("mol"), None ("none")     *)
(*             or raises ("raise")                                         *)
(* id is the identity of the conformer object: (record index, position).   *)
(***************************************************************************)
Splits == {"train", "val", "test"}

Molecules ==
    [water |-> [smiles |-> "[H]O[H]", atoms |-> <<"O", "H", "H">>, noh |-> "O"],
     hcn   |-> [smiles |-> "N#C[H]",  atoms |-> <<"H", "C", "N">>, noh |-> "C#N"],
     h2se  |-> [smiles |-> "[H][Se][H]", atoms |-> <<"H", "Se", "H">>, noh |-> "[Se]"]]

MolNames == DOMAIN Molecules

KnownMol(m) == Range(Molecules[m].atoms) \subseteq DOMAIN full_atom_encoder

Conformer(m, s, f, p, r) ==
    [mol |-> m, sanitize |-> s, features |-> f, passes |-> p, removeHs |-> r,
     id |-> <<0, 0>>]

\* first conformers: one for every answer the build can ask for
FirstConformers(m) ==
    {Conformer(m, FALSE, IF KnownMol(m) THEN 1 ELSE 0, TRUE, "mol"),
     Conformer(m, TRUE, 0, TRUE, "mol")}
    \cup (IF KnownMol(m)
          THEN {Conformer(m, TRUE, 1, FALSE, "mol")}
               \cup {Conformer(m, TRUE, 1, TRUE, r) : r \in {"mol", "none", "raise"}}
               \cup {Conformer(m, TRUE, f, TRUE, "mol") : f \in 2..MaxFeatures}
          ELSE {})

\* later conformers: valid ones, which the build would retain if it tried them
LaterConformers(m) ==
    {Conformer(m, TRUE, IF KnownMol(m) THEN 1 ELSE 0, TRUE, "mol")}

ConformerLists(m) ==
    {<<>>} \cup
    UNION {{<<c>> \o rest : c \in FirstConformers(m),
                            rest \in [1..n -> LaterConformers(m)]} :
           n \in 0..(MaxConformers - 1)}

RawRecords ==
    UNION {{[smiles |-> Molecules[m].smiles, all_conformers |-> cs] :
                cs \in ConformerLists(m)} : m \in MolNames}

\* record number n as the build sees it: every conformer object has an identity
Stamp(rec, n) ==
    [rec EXCEPT !.all_conformers =
        [k \in DOMAIN rec.all_conformers |->
            [rec.all_conformers[k] EXCEPT !.id = <<n, k - 1>>]]]

(***************************************************************************)
(* Collaborators of the build.                                             *)
(***************************************************************************)
\* dataset_utils.mol_to_torch_geometric(conformer, atom_encoder, smiles):
\* looks every element symbol up in the vocabulary, "KeyError" when absent
mol_to_torch_geometric(conformer, encoder, smiles) ==
    LET atoms == Molecules[conformer.mol].atoms IN
    IF \E k \in DOMAIN atoms : atoms[k] \notin DOMAIN encoder
    THEN [raised |-> "KeyError"]
    ELSE [raised |-> "", data |-> [x |-> [k \in DOMAIN atoms |-> encoder[atoms[k]]],
                    smiles |-> smiles, src |-> conformer.id,
                    transformed |-> FALSE],
          pos_mean |-> conformer.id]

\* pharmacophore_utils.mol_to_torch_pharmacophore(conformer, pos_mean, name):
\* the feature points of the conformer; no points is answered with None
mol_to_torch_pharmacophore(conformer, pos_mean) ==
    IF conformer.features = 0 THEN None
    ELSE [points |-> conformer.features, src |-> pos_mean]

\* dataset_utils.remove_hydrogens(data, pharmacophore): drops the hydrogen
\* atoms (code 0), shifts the other codes down, passes the pharmacophore on
remove_hydrogens(data, pharmacophore) ==
    LET heavy == SelectCodes(data.x, 1..15) IN
    [data |-> [data EXCEPT !.x = [k \in DOMAIN heavy |-> heavy[k] - 1]],
     pharmacophore |-> pharmacophore]

\* self.pre_transform(data)
apply_pre_transform(data) == [data EXCEPT !.transformed = TRUE]

(***************************************************************************)
(* GeomDrugsDataset.processed_file_names and the processed directory.      *)
(***************************************************************************)
\* variant: the mode suffix h not depending on remove_h
processed_file_names_noh_only(s, rh) ==
    LET h == "noh" IN
    <<s \o "_" \o h \o ".pt", s \o "_n_" \o h \o ".pickle",
      s \o "_atom_types_" \o h \o ".npy", s \o "_bond_types_" \o h \o ".npy",
      s \o "_charges_" \o h \o ".npy", s \o "_valency_" \o h \o ".pickle",
      s \o "_bond_lengths_" \o h \o ".pickle", s \o "_angles_" \o h \o ".npy",
      s \o "_smiles.pickle", "goem_" \o s \o "_smiles_noh.pickle">>

\* the three branches of the code differ only in the split's name
processed_file_names(s, rh) ==
    LET h == IF rh THEN "noh" ELSE "h" IN
    <<s \o "_" \o h \o ".pt", s \o "_n_" \o h \o ".pickle",
      s \o "_atom_types_" \o h \o ".npy", s \o "_bond_types_" \o h \o ".npy",
      s \o "_charges_" \o h \o ".npy", s \o "_valency_" \o h \o ".pickle",
      s \o "_bond_lengths_" \o h \o ".pickle", s \o "_angles_" \o h \o ".npy",
      s \o "_smiles.pickle", "goem_" \o s \o "_smiles_noh.pickle">>

\* self.processed_paths[k], k counted from 0
processed_paths(s, rh, k) == processed_file_names(s, rh)[k + 1]

\* torch.save / np.save / save_pickle: the file holds value; by is the
\* (split, remove_h) of the dataset object that wrote it
Save(d, name, value, by) ==
    [n \in DOMAIN d \cup {name} |->
        IF n = name THEN [value |-> value, by |-> by] ELSE d[n]]

\* variant: the table counting from 1
charges_dic_from_one ==
    (-2 :> 1) @@ (-1 :> 2) @@ (0 :> 3) @@ (1 :> 4) @@ (2 :> 5) @@ (3 :> 6)

\* the charge table handed to compute_all_statistics
charges_dic ==
    (-2 :> 0) @@ (-1 :> 1) @@ (0 :> 2) @@ (1 :> 3) @@ (2 :> 4) @@ (3 :> 5)

custome_collate(dl) ==
    [ligand |-> [k \in DOMAIN dl |-> dl[k].ligand],
     pharmacophore |-> [k \in DOMAIN dl |-> dl[k].pharmacophore]]

\* metrics_utils.compute_all_statistics(mols_list, atom_encoder, charges_dic):
\* each statistic is kept as the input it is computed from
compute_all_statistics(ml, encoder, cd) ==
    [stat \in {"num_nodes", "atom_types", "bond_types", "charge_types",
               "valencies", "bond_lengths", "bond_angles"} |->
        [stat |-> stat, mols |-> ml, atom_encoder |-> encoder, charges_dic |-> cd]]

(***************************************************************************)
(* GeomDrugsDataset.process: the body of the loop over the raw records.    *)
(* L holds the locals the body updates.                                    *)
(***************************************************************************)
Locals ==
    [pc |-> pc, data_list |-> data_list, mols_list |-> mols_list,
     all_smiles_noh |-> all_smiles_noh, smiles_no_h |-> smiles_no_h,
     tried |-> tried]

\* variant: the loop without its break
Break_never(j) == FALSE

\* if j >= 1: break
Break(j) == j >= 1

\* variant: the failure of sanitization ignored
Sanitized_unchecked(conformer) == TRUE

\* try: SanitizeMol; Kekulize / except: continue
Sanitized(conformer) == conformer.sanitize

\* variant: the None check left out
Dropped_never(pharmacophore) == FALSE

\* if pharmacophore is None: continue
Dropped(pharmacophore) == pharmacophore = None

\* if self.pre_filter is not None and not self.pre_filter(data): continue
Filtered(pf, conformer) == pf # None /\ ~conformer.passes

\* variant: mols_list.append(data) left out
Retain_ligand_only(L, data, pharmacophore) ==
    [L EXCEPT !.data_list = Append(@, [ligand |-> data, pharmacophore |-> pharmacophore])]

\* data_list.append({...}); mols_list.append(data)
Retain(L, data, pharmacophore) ==
    [L EXCEPT !.data_list = Append(@, [ligand |-> data, pharmacophore |-> pharmacophore]),
              !.mols_list = Append(@, data)]

\* variant: a record is skipped when RemoveHs answers no molecule
SmilesNoH_skip(L, conformer) ==
    IF conformer.removeHs # "mol" THEN L
    ELSE [L EXCEPT !.smiles_no_h = <<Molecules[conformer.mol].noh>>,
                   !.all_smiles_noh = Append(@, Molecules[conformer.mol].noh)]

\* the try block after the append: RemoveHs, MolToSmiles, all_smiles_noh.append.
\* Reading smiles_no_h while it is unbound raises, and the except continues;
\* once bound it holds a string of MolToSmiles, so "is not None" is true.
SmilesNoH(L, conformer) ==
    IF conformer.removeHs = "raise" THEN L
    ELSE LET L1 == IF conformer.removeHs = "mol"
                   THEN [L EXCEPT !.smiles_no_h = <<Molecules[conformer.mol].noh>>]
                   ELSE L
         IN IF L1.smiles_no_h = Unbound THEN L1
            ELSE [L1 EXCEPT !.all_smiles_noh = Append(@, L1.smiles_no_h[1])]

RECURSIVE conformer_loop(_, _, _, _, _, _, _)
\* for j, conformer in enumerate(all_conformers): ...   (pc "aborted": an
\* exception left the loop and process)
conformer_loop(L, smiles, all_conformers, j, rh, pf, pt) ==
    IF j >= Len(all_conformers) THEN L
    ELSE IF Break(j) THEN L
    ELSE
      LET conformer == all_conformers[j + 1]
          L1 == [L EXCEPT !.tried = Append(@, conformer.id)]
          next(LL) == conformer_loop(LL, smiles, all_conformers, j + 1, rh, pf, pt)
      IN
      IF ~Sanitized(conformer) THEN next(L1)
      ELSE
        LET enc == mol_to_torch_geometric(conformer, full_atom_encoder, smiles) IN
        IF enc.raised # "" THEN [L1 EXCEPT !.pc = "aborted"]
        ELSE
          LET pharmacophore == mol_to_torch_pharmacophore(conformer, enc.pos_mean) IN
          IF Dropped(pharmacophore) THEN next(L1)
          ELSE
            LET stripped == IF rh THEN remove_hydrogens(enc.data, pharmacophore)
                            ELSE [data |-> enc.data, pharmacophore |-> pharmacophore]
            IN
            IF Filtered(pf, conformer) THEN next(L1)
            ELSE
              LET data == IF pt # None THEN apply_pre_transform(stripped.data)
                          ELSE stripped.data
              IN next(SmilesNoH(Retain(L1, data, stripped.pharmacophore), conformer))

(***************************************************************************)
(* The corpus build, one raw record at a time.                             *)
(***************************************************************************)
Callables == {None, [py |-> "callable"]}

InitDataset(s, rh, pf, pt) ==
    /\ split = s
    /\ remove_h = rh
    /\ pre_filter = pf
    /\ pre_transform = pt
    /\ atom_encoder = GeomDrugsDataset_atom_encoder(rh)
    /\ full_data_dict = None

InitProcess ==
    /\ pc = "loop"
    /\ i = 0
    /\ data_rec = None
    /\ all_smiles = <<>>
    /\ data_list = <<>>
    /\ mols_list = <<>>
    /\ all_smiles_noh = <<>>
    /\ smiles_no_h = Unbound
    /\ tried = <<>>

InitInfos ==
    /\ infos = None
    /\ call = [op |-> "none"]

\* GeomDrugsDataset(split, root, remove_h, ...) has entered process on an
\* empty processed directory
Init ==
    /\ \E rh \in BOOLEAN, pf \in Callables, pt \in Callables :
          InitDataset("train", rh, pf, pt)
    /\ InitProcess
    /\ disk = <<>>
    /\ InitInfos

\* one iteration of "for i, data in enumerate(tqdm(all_data))"
ProcessRecord ==
    /\ pc = "loop"
    /\ i < MaxRecords
    /\ \E rec \in RawRecords :
          LET data == Stamp(rec, i)
              L == conformer_loop(Locals, data.smiles, data.all_conformers, 0,
                                  remove_h, pre_filter, pre_transform)
          IN /\ data_rec' = data
             /\ all_smiles' = Append(all_smiles, data.smiles)
             /\ pc' = L.pc
             /\ data_list' = L.data_list
             /\ mols_list' = L.mols_list
             /\ all_smiles_noh' = L.all_smiles_noh
             /\ smiles_no_h' = L.smiles_no_h
             /\ tried' = L.tried
    /\ i' = i + 1
    /\ UNCHANGED <<dsVars, disk, infoVars>>

\* what process writes once the loop is over
Persist(d, s, rh, dl, ml, encoder, smiles, smiles_noh) ==
    LET by == <<s, rh>>
        statistics == compute_all_statistics(ml, encoder, charges_dic)
        d0 == Save(d, processed_paths(s, rh, 0), custome_collate(dl), by)
        d1 == Save(d0, processed_paths(s, rh, 1), statistics["num_nodes"], by)
        d2 == Save(d1, processed_paths(s, rh, 2), statistics["atom_types"], by)
        d3 == Save(d2, processed_paths(s, rh, 3), statistics["bond_types"], by)
        d4 == Save(d3, processed_paths(s, rh, 4), statistics["charge_types"], by)
        d5 == Save(d4, processed_paths(s, rh, 5), statistics["valencies"], by)
        d6 == Save(d5, processed_paths(s, rh, 6), statistics["bond_lengths"], by)
        d7 == Save(d6, processed_paths(s, rh, 7), statistics["bond_angles"], by)
        d8 == Save(d7, processed_paths(s, rh, 8), Range(smiles), by)
        d9 == Save(d8, processed_paths(s, rh, 9), Range(smiles_noh), by)
    IN Save(d9, processed_paths(s, rh, 0), custome_collate(dl), by)

\* the raw records are exhausted: process persists, __init__ loads the corpus
Finish ==
    /\ pc = "loop"
    /\ pc' = "done"
    /\ disk' = Persist(disk, split, remove_h, data_list, mols_list,
                       atom_encoder, all_smiles, all_smiles_noh)
    /\ full_data_dict' = disk'[processed_paths(split, remove_h, 0)].value
    /\ UNCHANGED <<split, remove_h, pre_filter, pre_transform, atom_encoder,
                   i, data_rec, all_smiles, data_list, mols_list,
                   all_smiles_noh, smiles_no_h, tried, infoVars>>

\* len(dataset), dataset[idx]
GeomDrugsDataset_len == Len(full_data_dict.ligand)

GeomDrugsDataset_getitem(idx) ==
    [ligand |-> full_data_dict.ligand[idx + 1],
     pharmacophore |-> full_data_dict.pharmacophore[idx + 1]]

Next == ProcessRecord \/ Finish

Spec == Init /\ [][Next]_vars

(***************************************************************************)
(* The processed directory across dataset objects.  Every split has its    *)
(* raw file; GeomDrugsDataset(split, root, remove_h, pre_filter=...) runs  *)
(* process when one of its processed files is missing, then loads.         *)
(***************************************************************************)
RECURSIVE process_loop(_, _, _, _, _, _)
\* the whole loop of process over all_data, from record number n on
process_loop(L, all_data, n, rh, pf, pt) ==
    IF n >= Len(all_data) \/ L.pc = "aborted" THEN L
    ELSE LET data == Stamp(all_data[n + 1], n) IN
         process_loop(conformer_loop(L, data.smiles, data.all_conformers, 0, rh, pf, pt),
                      all_data, n + 1, rh, pf, pt)

NewLocals ==
    [pc |-> "loop", data_list |-> <<>>, mols_list |-> <<>>,
     all_smiles_noh |-> <<>>, smiles_no_h |-> Unbound, tried |-> <<>>]

RawRecord(m, c) == [smiles |-> Molecules[m].smiles, all_conformers |-> <<c>>]

\* load_pickle(self.raw_paths[0])
raw_file(s) ==
    IF s = "train"
    THEN <<RawRecord("water", Conformer("water", TRUE, 1, FALSE, "mol")),
           RawRecord("hcn", Conformer("hcn", TRUE, 1, TRUE, "none"))>>
    ELSE IF s = "val"
    THEN <<RawRecord("hcn", Conformer("hcn", FALSE, 1, TRUE, "mol"))>>
    ELSE <<RawRecord("water", Conformer("water", TRUE, 1, TRUE, "mol")),
           RawRecord("h2se", Conformer("h2se", TRUE, 0, TRUE, "mol"))>>

\* torch_geometric's InMemoryDataset skips process when every processed file exists
files_exist(d, s, rh) ==
    \A k \in 0..9 : processed_paths(s, rh, k) \in DOMAIN d

IdleProcess ==
    /\ pc = "done"
    /\ i = 0
    /\ data_rec = None
    /\ all_smiles = <<>>
    /\ data_list = <<>>
    /\ mols_list = <<>>
    /\ all_smiles_noh = <<>>
    /\ smiles_no_h = Unbound
    /\ tried = <<>>

InitStore ==
    /\ split = "train"
    /\ remove_h = FALSE
    /\ pre_filter = None
    /\ pre_transform = None
    /\ atom_encoder = full_atom_encoder
    /\ full_data_dict = None
    /\ IdleProcess
    /\ disk = <<>>
    /\ InitInfos

\* GeomDrugsDataset.__init__ on the shared root; an exception of process
\* leaves the constructor, and nothing is written or loaded
Construct ==
    /\ \E s \in Splits, rh \in BOOLEAN, pf \in Callables :
          LET all_data == raw_file(s)
              L == process_loop(NewLocals, all_data, 0, rh, pf, None)
              smiles == [k \in DOMAIN all_data |-> all_data[k].smiles]
              d == IF files_exist(disk, s, rh) THEN disk
                   ELSE Persist(disk, s, rh, L.data_list, L.mols_list,
                                GeomDrugsDataset_atom_encoder(rh), smiles,
                                L.all_smiles_noh)
          IN /\ files_exist(disk, s, rh) \/ L.pc # "aborted"
             /\ split' = s
             /\ remove_h' = rh
             /\ pre_filter' = pf
             /\ pre_transform' = None
             /\ atom_encoder' = GeomDrugsDataset_atom_encoder(rh)
             /\ disk' = d
             /\ full_data_dict' = d[processed_paths(s, rh, 0)].value
    /\ UNCHANGED <<procVars, infoVars>>

NextStore == Construct

SpecStore == InitStore /\ [][NextStore]_vars

(***************************************************************************)
(* GeomInfos: the vocabulary and the one-hot helpers.  A tensor of one     *)
(* molecule is a sequence over its atoms; a one-hot vector is a sequence   *)
(* of 0/1 whose entry c+1 stands for class c.                              *)
(***************************************************************************)
\* torch.nn.functional.one_hot(v, num_classes) for one index v
one_hot(v, num_classes) == [c \in 1..num_classes |-> IF c = v + 1 THEN 1 ELSE 0]

scale(v, keep) == [c \in DOMAIN v |-> IF keep THEN v[c] ELSE 0]

\* PlaceHolder.mask(node_mask): entries of an atom outside the mask, and of
\* a pair with an atom outside the mask, are multiplied by zero
PlaceHolder_mask(pl, node_mask) ==
    [X |-> [k \in DOMAIN pl.X |-> scale(pl.X[k], node_mask[k])],
     charges |-> [k \in DOMAIN pl.charges |-> scale(pl.charges[k], node_mask[k])],
     E |-> [a \in DOMAIN pl.E |->
              [b \in DOMAIN pl.E[a] |-> scale(pl.E[a][b], node_mask[a] /\ node_mask[b])]]]

\* AbstractDatasetInfos.complete_infos: num_atom_types is the vocabulary's size
complete_infos(encoder) == Cardinality(DOMAIN encoder)

GeomInfos_init(rh) ==
    [remove_h |-> rh,
     atom_encoder |-> GeomInfos_atom_encoder(rh),
     collapse_charges |-> <<-2, -1, 0, 1, 2, 3>>,
     num_atom_types |-> complete_infos(GeomInfos_atom_encoder(rh))]

\* variant: the one-hot vectors returned without placeholder.mask
to_one_hot_unmasked(self, X, charges, E, node_mask) ==
    [X |-> [k \in DOMAIN X |-> one_hot(X[k], self.num_atom_types)],
     charges |-> [k \in DOMAIN charges |-> one_hot(charges[k] + 2, 6)],
     E |-> [a \in DOMAIN E |-> [b \in DOMAIN E[a] |-> one_hot(E[a][b], 5)]]]

to_one_hot(self, X, charges, E, node_mask) ==
    LET placeholder ==
          [X |-> [k \in DOMAIN X |-> one_hot(X[k], self.num_atom_types)],
           charges |-> [k \in DOMAIN charges |-> one_hot(charges[k] + 2, 6)],
           E |-> [a \in DOMAIN E |-> [b \in DOMAIN E[a] |-> one_hot(E[a][b], 5)]]]
    IN PlaceHolder_mask(placeholder, node_mask)

one_hot_charges(self, charges) ==
    [k \in DOMAIN charges |-> one_hot(charges[k] + 2, 6)]

\* the molecules handed to the helpers: n atoms, atom k of type t+k-1 and
\* charge c+k-1 (both wrapping around), bond type b between any two atoms
SampleX(n, t, num) == [k \in 1..n |-> (t + k - 1) % num]
SampleCharges(n, c) == [k \in 1..n |-> ((c + 2 + k - 1) % 6) - 2]
SampleE(n, b) == [a \in 1..n |-> [d \in 1..n |-> IF a = d THEN 0 ELSE b]]

\* the datamodule's datasets are built with the cfg that GeomInfos reads
InitInfo ==
    /\ \E rh \in BOOLEAN : InitDataset("train", rh, None, None)
    /\ IdleProcess
    /\ disk = <<>>
    /\ InitInfos

NewGeomInfos ==
    /\ infos = None
    /\ infos' = GeomInfos_init(remove_h)
    /\ UNCHANGED <<dsVars, procVars, disk, call>>

\* the helpers are pure: a behaviour looks at one call of one of them
CallToOneHot ==
    /\ infos # None
    /\ call.op = "none"
    /\ \E n \in 1..MaxNodes, t \in 0..(infos.num_atom_types - 1), c \in -2..3,
          b \in 0..4 :
          \E node_mask \in [1..n -> BOOLEAN] :
             LET X == SampleX(n, t, infos.num_atom_types)
                 charges == SampleCharges(n, c)
                 E == SampleE(n, b)
             IN call' = [op |-> "to_one_hot", X |-> X, charges |-> charges, E |-> E,
                         node_mask |-> node_mask,
                         result |-> to_one_hot(infos, X, charges, E, node_mask)]
    /\ UNCHANGED <<dsVars, procVars, disk, infos>>

CallOneHotCharges ==
    /\ infos # None
    /\ call.op = "none"
    /\ \E n \in 1..MaxNodes, c \in -2..3 :
          LET charges == SampleCharges(n, c)
          IN call' = [op |-> "one_hot_charges", charges |-> charges,
                      result |-> one_hot_charges(infos, charges)]
    /\ UNCHANGED <<dsVars, procVars, disk, infos>>

NextInfo == NewGeomInfos \/ CallToOneHot \/ CallOneHotCharges

SpecInfo == InitInfo /\ [][NextInfo]_vars

(***************************************************************************)
(* Properties of the corpus build.                                         *)
(***************************************************************************)
\* the raw record of the last iteration and what the build kept of it
HasFirst == i >= 1 /\ Len(data_rec.all_conformers) >= 1
First == data_rec.all_conformers[1]
PairsOf(n) == {k \in DOMAIN data_list : data_list[k].ligand.src[1] = n}
MolsOf(n) == {k \in DOMAIN mols_list : mols_list[k].src[1] = n}
Corpus == disk[processed_paths(split, remove_h, 0)].value
StatisticsInput == disk[processed_paths(split, remove_h, 1)].value.mols

\* C1: a record whose first conformer fails sanitization or kekulization
\* contributes no pair, raises nothing and leaves the build running; a split
\* whose only record fails yields a persisted corpus of zero records.
C1_SanitizeFailureSkipsRecord ==
    (HasFirst /\ ~First.sanitize) =>
        /\ PairsOf(i - 1) = {}
        /\ MolsOf(i - 1) = {}
        /\ pc # "aborted"
        /\ (pc = "done" /\ i = 1) =>
              /\ Corpus.ligand = <<>>
              /\ Corpus.pharmacophore = <<>>
              /\ GeomDrugsDataset_len = 0

C1_Witness ==
    /\ pc = "done" /\ i = 1
    /\ HasFirst /\ ~First.sanitize /\ KnownMol(First.mol) /\ First.features >= 1
    /\ Corpus.ligand = <<>>

\* C2: a record with an element symbol absent from the vocabulary is
\* skipped and the build goes on; the failed lookup never aborts the build.
C2_UnknownElementSkipped ==
    (HasFirst /\ First.sanitize /\ ~KnownMol(First.mol)) =>
        /\ PairsOf(i - 1) = {}
        /\ pc # "aborted"

C5_OnlyFirstConformer ==
    /\ \A k \in DOMAIN tried : tried[k][2] = 0
    /\ \A k \in DOMAIN data_list : data_list[k].ligand.src[2] = 0
    /\ \A k1, k2 \in DOMAIN data_list :
          k1 < k2 => data_list[k1].ligand.src[1] < data_list[k2].ligand.src[1]
    /\ \A n \in 0..(i - 1) : Cardinality(PairsOf(n)) <= 1
    /\ (HasFirst /\ ~First.sanitize) => PairsOf(i - 1) = {}

C5_Witness ==
    /\ i = 2 /\ HasFirst /\ ~First.sanitize
    /\ Len(data_rec.all_conformers) >= 2
    /\ data_rec.all_conformers[2].sanitize
    /\ data_rec.all_conformers[2].features >= 1
    /\ PairsOf(0) # {} /\ PairsOf(1) = {}

\* C8: when RemoveHs answers None for a retained record, the build appends
\* the hydrogen-stripped SMILES left bound by an earlier retained record
\* again and goes on; with nothing bound yet it appends nothing and goes on.
C8_StaleSmilesNoH ==
    [][(/\ i' = i + 1
        /\ Len(data_list') = Len(data_list) + 1
        /\ data_rec'.all_conformers[1].removeHs = "none")
       => /\ pc' = "loop"
          /\ smiles_no_h' = smiles_no_h
          /\ IF smiles_no_h # Unbound
             THEN all_smiles_noh' = Append(all_smiles_noh, smiles_no_h[1])
             ELSE all_smiles_noh' = all_smiles_noh]_vars

C8_Witness ==
    /\ i = 2 /\ pc = "loop" /\ HasFirst /\ First.removeHs = "none"
    /\ Len(data_list) = 2
    /\ Len(all_smiles_noh) = 2
    /\ all_smiles_noh[2] = all_smiles_noh[1]
    /\ all_smiles_noh[2] # Molecules[First.mol].noh

\* C9: the persisted ligand list, the persisted pharmacophore list and the
\* statistics input are aligned: same length, entry k of each from the same
\* raw record, the statistics input being the persisted ligand graphs (after
\* hydrogen removal and pre_transform); a rejected record is in none of them.
Rejected ==
    \/ ~First.sanitize
    \/ First.features = 0
    \/ (pre_filter # None /\ ~First.passes)

MolOfSmiles(s) == CHOOSE m \in MolNames : Molecules[m].smiles = s

\* the atoms a persisted graph of molecule m holds, in the codes of self.atom_encoder
ExpectedCodes(m) ==
    LET kept == IF remove_h
                THEN SelectCodes(Molecules[m].atoms, DOMAIN full_atom_encoder \ {"H"})
                ELSE Molecules[m].atoms
    IN [k \in DOMAIN kept |-> atom_encoder[kept[k]]]

C9_ListsAligned ==
    /\ Len(mols_list) = Len(data_list)
    /\ \A k \in DOMAIN data_list :
          /\ mols_list[k] = data_list[k].ligand
          /\ data_list[k].pharmacophore # None
          /\ data_list[k].pharmacophore.src = data_list[k].ligand.src
          /\ data_list[k].ligand.transformed = (pre_transform # None)
          /\ data_list[k].ligand.x = ExpectedCodes(MolOfSmiles(data_list[k].ligand.smiles))
    /\ (HasFirst /\ KnownMol(First.mol) /\ Rejected) =>
          PairsOf(i - 1) = {} /\ MolsOf(i - 1) = {}
    /\ pc = "done" =>
          /\ Corpus.ligand = mols_list
          /\ StatisticsInput = Corpus.ligand
          /\ Len(Corpus.pharmacophore) = Len(Corpus.ligand)
          /\ full_data_dict = Corpus
          /\ \A idx \in 0..(GeomDrugsDataset_len - 1) :
                /\ GeomDrugsDataset_getitem(idx).ligand = StatisticsInput[idx + 1]
                /\ GeomDrugsDataset_getitem(idx).pharmacophore.src
                      = GeomDrugsDataset_getitem(idx).ligand.src

C9_Witness ==
    /\ pc = "done" /\ i = 2 /\ remove_h /\ pre_transform # None
    /\ pre_filter # None
    /\ HasFirst /\ First.sanitize /\ ~First.passes
    /\ Len(Corpus.ligand) = 1
    /\ StatisticsInput = Corpus.ligand

(***************************************************************************)
(* Properties of the processed-file naming.                                *)
(***************************************************************************)
Keys == Splits \X BOOLEAN
NamesOf(key) == processed_file_names(key[1], key[2])
Built(key) == NamesOf(key)[1] \in DOMAIN disk

\* C4 as claimed: the processed file names of two distinct (split, remove_h)
\* pairs never coincide, so every artifact of a built pair is still the one
\* that pair's own build wrote.
C4_NoSharedArtifact ==
    \A k1 \in Keys :
        Built(k1) =>
            /\ \A a \in 1..10 : disk[NamesOf(k1)[a]].by = k1
            /\ \A k2 \in Keys \ {k1} :
                  Built(k2) => Range(NamesOf(k1)) \cap Range(NamesOf(k2)) = {}

\* C4 amended: names of different splits never coincide; the two modes of
\* one split share exactly the two SMILES files (positions 8 and 9) and no
\* other name; so the corpus and the seven statistics files of a built pair
\* are its own, and its SMILES files were written by a build of its split.
C4_ArtifactsKeyedBySplit ==
    /\ \A k1 \in Keys, k2 \in Keys, a \in 1..10, b \in 1..10 :
          (k1 # k2 /\ NamesOf(k1)[a] = NamesOf(k2)[b]) =>
              (k1[1] = k2[1] /\ a = b /\ a \in {9, 10})
    /\ \A s \in Splits, a \in {9, 10} :
          NamesOf(<<s, TRUE>>)[a] = NamesOf(<<s, FALSE>>)[a]
    /\ \A k \in Keys :
          Built(k) =>
              /\ \A a \in 1..8 : disk[NamesOf(k)[a]].by = k
              /\ \A a \in {9, 10} : disk[NamesOf(k)[a]].by[1] = k[1]

C4_Witness ==
    /\ Built(<<"train", TRUE>>) /\ Built(<<"train", FALSE>>) /\ Built(<<"val", TRUE>>)
    /\ disk[NamesOf(<<"train", FALSE>>)[10]].by = <<"train", TRUE>>
    /\ disk[NamesOf(<<"train", FALSE>>)[1]].by = <<"train", FALSE>>
    /\ split = "val"

(***************************************************************************)
(* Properties of the vocabulary and of the one-hot helpers.                *)
(***************************************************************************)
\* C6: with remove_h the vocabulary of GeomInfos is the full one without
\* 'H' and with every other code one lower: injective, codes exactly 0..14,
\* order of the symbols kept, and equal to the table of GeomDrugsDataset.
C6_HydrogenFreeVocabulary ==
    infos # None =>
        LET enc == infos.atom_encoder IN
        /\ enc = atom_encoder
        /\ ~infos.remove_h => enc = full_atom_encoder
        /\ infos.remove_h =>
              /\ DOMAIN enc = DOMAIN full_atom_encoder \ {"H"}
              /\ \A k \in DOMAIN enc : enc[k] = full_atom_encoder[k] - 1
              /\ \A k1, k2 \in DOMAIN enc : enc[k1] = enc[k2] => k1 = k2
              /\ {enc[k] : k \in DOMAIN enc} = 0..14
              /\ \A k1, k2 \in DOMAIN enc :
                    (full_atom_encoder[k1] < full_atom_encoder[k2]) <=> (enc[k1] < enc[k2])
              /\ infos.num_atom_types = 15

C6_Witness ==
    /\ infos # None /\ infos.remove_h /\ remove_h
    /\ "H" \notin DOMAIN infos.atom_encoder
    /\ infos.atom_encoder["B"] = 0
    /\ infos.atom_encoder["Bi"] = 14

\* torch.argmax of one vector: the first index holding the maximum
argmax(v) ==
    CHOOSE a \in 0..(Len(v) - 1) :
        /\ \A b \in 0..(Len(v) - 1) : v[b + 1] <= v[a + 1]
        /\ \A b \in 0..(a - 1) : v[b + 1] < v[a + 1]

NonZero(v) == {c \in DOMAIN v : v[c] # 0}

\* C7: to_one_hot at an atom inside the mask returns a vector whose arg-max
\* is the atom-type index and which has exactly one non-zero entry; at an
\* atom outside the mask the atom-type, charge and bond vectors are zero.
C7_OneHotRoundTrip ==
    call.op = "to_one_hot" =>
        \A k \in DOMAIN call.X :
            IF call.node_mask[k]
            THEN /\ call.X[k] \in 0..(infos.num_atom_types - 1)
                 /\ Len(call.result.X[k]) = infos.num_atom_types
                 /\ argmax(call.result.X[k]) = call.X[k]
                 /\ Cardinality(NonZero(call.result.X[k])) = 1
            ELSE /\ NonZero(call.result.X[k]) = {}
                 /\ NonZero(call.result.charges[k]) = {}
                 /\ \A b \in DOMAIN call.X :
                       /\ NonZero(call.result.E[k][b]) = {}
                       /\ NonZero(call.result.E[b][k]) = {}

C7_Witness ==
    /\ call.op = "to_one_hot"
    /\ Len(call.X) = 2
    /\ call.node_mask = <<TRUE, FALSE>>
    /\ call.X[1] = infos.num_atom_types - 1
    /\ call.E[1][2] # 0
    /\ argmax(call.result.X[1]) = call.X[1]
    /\ NonZero(call.result.X[2]) = {}

\* C10: the one-hot position c + 2 that to_one_hot and one_hot_charges use
\* for a charge c is the index the statistics' charge table gives c, lies in
\* 0..5, and collapse_charges at that position is c again.
ChargeChecked(k) == call.op = "one_hot_charges" \/ call.node_mask[k]

C10_ChargeShiftAgrees ==
    /\ DOMAIN charges_dic = -2..3
    /\ call.op \in {"to_one_hot", "one_hot_charges"} =>
          LET out == IF call.op = "to_one_hot" THEN call.result.charges
                     ELSE call.result
          IN \A k \in DOMAIN call.charges :
                ChargeChecked(k) =>
                    /\ Cardinality(NonZero(out[k])) = 1
                    /\ argmax(out[k]) = charges_dic[call.charges[k]]
                    /\ argmax(out[k]) \in 0..5
                    /\ infos.collapse_charges[argmax(out[k]) + 1] = call.charges[k]

C10_Witness ==
    /\ call.op = "one_hot_charges"
    /\ Len(call.charges) = 2
    /\ call.charges = <<3, -2>>
    /\ argmax(call.result[1]) = 5
    /\ argmax(call.result[2]) = 0

====
